---------------------------- MODULE Spec2Model ----------------------------
(***************************************************************************)
(* A model of the fleet state server (fleet_state_server/main.go).         *)
(*                                                                         *)
(* The server is one sequential loop: it reads one UDP datagram, hands it  *)
(* to handlePacket, and reads the next.  The state is the two maps the     *)
(* loop owns (fleet, subscribers) and what the loop has done to the        *)
(* outside world: the send attempts it made and the lines it wrote to      *)
(* stderr.  `received` records the loop's iterations in order; it is the   *)
(* history the properties are stated against.  `measured` holds the last   *)
(* call of getDistance made on its own, outside the loop.                  *)
(*                                                                         *)
(* Text.  A datagram's text is a sequence of pieces.  A piece is a single  *)
(* space " ", a tab, or a run of non-blank characters.  Adjacent non-blank *)
(* pieces are adjacent in the text ("SUBSCRIBE" followed by "X" is the     *)
(* text SUBSCRIBEX), and no piece other than "SUBSCRIBE" itself begins     *)
(* with those nine letters.                                                *)
(*                                                                         *)
(* Numbers.  A float64 is [k, v]: k = "fin" with v in millionths (of a     *)
(* degree for coordinates), or k in {"nan", "pinf", "ninf"}; a decimal     *)
(* text with a seventh digit keeps that digit in e.  A time.Time           *)
(* is [h, ms]: whole hours since 0001-01-01T00:00:00Z and milliseconds     *)
(* into that hour; a time.Duration has the same shape (h may be negative,  *)
(* 0 <= ms < MsPerHour), so that the int64 range of a Duration is inside   *)
(* the model although TLC's integers are 32 bits wide.                     *)
(***************************************************************************)
EXTENDS Integers, Sequences, FiniteSets, TLC

VARIABLES
    fleet,          \* map[string][]location         (main.go:97)
    subscribers,    \* map[string][]*net.UDPAddr     (main.go:101)
    outlog,         \* every send attempt made so far, in order
    stderr,         \* the diagnostics written so far, in order
    received,       \* the iterations of the server loop so far, in order
    measured        \* the last call of getDistance on its own, if any

vars == <<fleet, subscribers, outlog, stderr, received, measured>>

-----------------------------------------------------------------------------
(* Bounds of the model.                                                    *)

\* The number of iterations of the server loop that are explored.
MaxPackets == 3

-----------------------------------------------------------------------------
(* Text: strings.HasPrefix and strings.Split.                              *)

SP == " "


\* strings.HasPrefix(message, "SUBSCRIBE") on a text made of pieces.
HasPrefixSUBSCRIBE(message) ==
    /\ Len(message) > 0
    /\ message[1] = "SUBSCRIBE"

RECURSIVE SplitFrom(_, _, _, _)
SplitFrom(message, i, cur, acc) ==
    IF i > Len(message) THEN Append(acc, cur)
    ELSE IF message[i] = SP
         THEN SplitFrom(message, i + 1, <<>>, Append(acc, cur))
         ELSE SplitFrom(message, i + 1, Append(cur, message[i]), acc)

\* strings.Split(message, " "): the fields between single spaces, empty
\* fields included; n spaces give n + 1 fields.
Split(message) == SplitFrom(message, 1, <<>>, <<>>)


-----------------------------------------------------------------------------
(* float64: strconv.ParseFloat and the values it yields.                   *)

Fin(v) == [k |-> "fin", v |-> v]
\* v millionths and e ten-millionths, 0 < e < 5.
Fin7(v, e) == [k |-> "fin", v |-> v, e |-> e]
NaN == [k |-> "nan", v |-> 0]
PosInf == [k |-> "pinf", v |-> 0]
NegInf == [k |-> "ninf", v |-> 0]

IsFinite(x) == x.k = "fin"

\* strconv.ParseFloat(field, 64) on the number texts of the model: a
\* decimal number parses to its value (here in millionths), "NaN" and the
\* infinities parse without error, anything else (the empty field too) is
\* an error.
ParseFloat(field) ==
    IF Len(field) # 1 THEN [err |-> TRUE, val |-> Fin(0)]
    ELSE CASE field[1] = "0.000000"   -> [err |-> FALSE, val |-> Fin(0)]
           [] field[1] = "20.000000"  -> [err |-> FALSE, val |-> Fin(20000000)]
           [] field[1] = "40.000000"  -> [err |-> FALSE, val |-> Fin(40000000)]
           [] field[1] = "53.344496"  -> [err |-> FALSE, val |-> Fin(53344496)]
           [] field[1] = "53.3444964" -> [err |-> FALSE, val |-> Fin7(53344496, 4)]
           [] field[1] = "-6.259427"  -> [err |-> FALSE, val |-> Fin(-6259427)]
           [] field[1] = "-1.000000"  -> [err |-> FALSE, val |-> Fin(-1000000)]
           [] field[1] = "-0.000000"  -> [err |-> FALSE, val |-> Fin(0)]
           [] field[1] = "NaN"        -> [err |-> FALSE, val |-> NaN]
           [] field[1] = "Inf"        -> [err |-> FALSE, val |-> PosInf]
           [] field[1] = "+Inf"       -> [err |-> FALSE, val |-> PosInf]
           [] field[1] = "-Inf"       -> [err |-> FALSE, val |-> NegInf]
           [] OTHER                   -> [err |-> TRUE, val |-> Fin(0)]

-----------------------------------------------------------------------------
(* time.Time and time.Duration.                                            *)

MsPerHour == 3600 * 1000

\* Normal form of an [h, ms] pair: 0 <= ms < MsPerHour.
NormDur(h, ms) ==
    [h |-> h + (ms \div MsPerHour), ms |-> ms % MsPerHour]

DurLess(a, b) == a.h < b.h \/ (a.h = b.h /\ a.ms < b.ms)

ZeroDuration == [h |-> 0, ms |-> 0]
OneSecond == [h |-> 0, ms |-> 1000]

\* The largest and smallest time.Duration, an int64 count of nanoseconds:
\* 2^63 - 1 ns = 2562047 h 47 min 16.854775807 s, and -2^63 ns, to the
\* millisecond.
maxDuration == [h |-> 2562047, ms |-> 2836854]
minDuration == [h |-> -2562048, ms |-> 763145]

\* The difference t - u of two instants as exact arithmetic gives it.
TrueGap(t, u) == NormDur(t.h - u.h, t.ms - u.ms)

\* Time.Sub: t - u, or the largest or smallest Duration when t - u is
\* outside the range of a Duration.
Sub(t, u) ==
    LET d == TrueGap(t, u) IN
    IF DurLess(maxDuration, d) THEN maxDuration
    ELSE IF DurLess(d, minDuration) THEN minDuration
    ELSE d

\* time.Parse(time.RFC3339Nano, field) on the timestamp texts of the model.
\* The fraction of a second is optional in the input and may end in zeros.
ParseTime(field) ==
    IF Len(field) # 1 THEN [err |-> TRUE, val |-> [h |-> 0, ms |-> 0]]
    ELSE CASE field[1] = "2024-01-01T00:00:00.000000000Z"
                -> [err |-> FALSE, val |-> [h |-> 17733240, ms |-> 0]]
           [] field[1] = "2024-01-01T00:00:00Z"
                -> [err |-> FALSE, val |-> [h |-> 17733240, ms |-> 0]]
           [] field[1] = "2023-10-24T01:39:41Z"
                -> [err |-> FALSE, val |-> [h |-> 17731585, ms |-> 2381000]]
           [] field[1] = "2024-01-01T00:00:01Z"
                -> [err |-> FALSE, val |-> [h |-> 17733240, ms |-> 1000]]
           [] field[1] = "2024-01-01T00:00:02Z"
                -> [err |-> FALSE, val |-> [h |-> 17733240, ms |-> 2000]]
           [] field[1] = "2400-01-01T00:00:00Z"
                -> [err |-> FALSE, val |-> [h |-> 21029184, ms |-> 0]]
           [] OTHER
                -> [err |-> TRUE, val |-> [h |-> 0, ms |-> 0]]

\* A layout that keeps all nine digits of the fraction of a second.
FormatTimePadded(t) ==
    CASE t = [h |-> 17733240, ms |-> 0]    -> "2024-01-01T00:00:00.000000000Z"
      [] t = [h |-> 17731585, ms |-> 2381000] -> "2023-10-24T01:39:41.000000000Z"
      [] t = [h |-> 17733240, ms |-> 1000] -> "2024-01-01T00:00:01.000000000Z"
      [] t = [h |-> 17733240, ms |-> 2000] -> "2024-01-01T00:00:02.000000000Z"
      [] t = [h |-> 21029184, ms |-> 0]    -> "2400-01-01T00:00:00.000000000Z"
      [] OTHER                             -> "?"

\* Time.Format(time.RFC3339Nano): the text of an instant, with the zeros at
\* the end of the fraction of a second removed.
FormatTime(t) ==
    CASE t = [h |-> 17733240, ms |-> 0]    -> "2024-01-01T00:00:00Z"
      [] t = [h |-> 17731585, ms |-> 2381000] -> "2023-10-24T01:39:41Z"
      [] t = [h |-> 17733240, ms |-> 1000] -> "2024-01-01T00:00:01Z"
      [] t = [h |-> 17733240, ms |-> 2000] -> "2024-01-01T00:00:02Z"
      [] t = [h |-> 21029184, ms |-> 0]    -> "2400-01-01T00:00:00Z"
      [] OTHER                             -> "?"

-----------------------------------------------------------------------------
(* package math, in fixed point.  A real x is the integer x * Scale,       *)
(* rounded toward zero; the series are those of the functions, summed      *)
(* until a term rounds to zero.  Angles are within 2 radians of zero,      *)
(* which coordinates within 90 degrees of each other give.                 *)

Scale == 10 ^ 4

\* pi * Scale, from 355/113.
PiS == (355 * Scale) \div 113

\* n / d rounded toward zero, d > 0.
Trunc(n, d) == IF n >= 0 THEN n \div d ELSE -((-n) \div d)

Mul(a, b) == Trunc(a * b, Scale)

\* Sum of the series whose first term is `term` and whose next term is
\* -term * x2 / (n * (n + 1)): sine from (x, 2), cosine from (1, 1).
RECURSIVE AltSeries(_, _, _)
AltSeries(term, x2, n) ==
    IF term = 0 THEN 0
    ELSE term + AltSeries(-Trunc(Mul(term, x2), n * (n + 1)), x2, n + 2)

Sin(x) == AltSeries(x, Mul(x, x), 2)
Cos(x) == AltSeries(Scale, Mul(x, x), 1)

RECURSIVE NewtonSqrt(_, _)
NewtonSqrt(n, x) ==
    LET y == (x + n \div x) \div 2 IN
    IF y >= x THEN x ELSE NewtonSqrt(n, y)

\* math.Sqrt(a) for 0 <= a <= 1.
Sqrt(a) == IF a <= 0 THEN 0 ELSE NewtonSqrt(a * Scale, a * Scale)

\* Sum of t - t^3/3 + t^5/5 - ..., from the power p = t^n on.
RECURSIVE AtanSeries(_, _, _)
AtanSeries(p, t2, n) ==
    IF p = 0 THEN 0
    ELSE Trunc(p, n) + AtanSeries(-Mul(p, t2), t2, n + 2)

\* The arc tangent of t, 0 <= t <= 1: the series where it converges fast,
\* and pi/4 + atan((t - 1) / (t + 1)) otherwise.
Atan(t) ==
    IF 2 * t <= Scale THEN AtanSeries(t, Mul(t, t), 1)
    ELSE LET u == Trunc((t - Scale) * Scale, t + Scale) IN
         PiS \div 4 + AtanSeries(u, Mul(u, u), 1)

\* math.Atan2(y, x) for y >= 0 and x >= 0, the quadrant of two square roots.
Atan2(y, x) ==
    IF y = 0 THEN 0
    ELSE IF y <= x THEN Atan(Trunc(y * Scale, x))
    ELSE PiS \div 2 - Atan(Trunc(x * Scale, y))

-----------------------------------------------------------------------------
(* getDistance and the speed of a vehicle.                                 *)

\* Average radius of the earth in meters.
earthRadius == 6371009

\* degrees * math.Pi / 180.0: millionths of a degree to radians * Scale.
Radians(v) == Trunc(Trunc(v, 10000) * PiS, 18000)

\* The haversine formula with the cosine of the first latitude taken twice.
HaversineSkewed(lat1, long1, lat2, long2) ==
    LET phi1 == Radians(lat1)
        lambda1 == Radians(long1)
        phi2 == Radians(lat2)
        lambda2 == Radians(long2)
        deltaPhi == phi2 - phi1
        deltaLambda == lambda2 - lambda1
        sinPhi == Sin(Trunc(deltaPhi, 2))
        sinLambda == Sin(Trunc(deltaLambda, 2))
        a == Mul(sinPhi, sinPhi)
               + Mul(Mul(Cos(phi1), Cos(phi1)), Mul(sinLambda, sinLambda))
        c == 2 * Atan2(Sqrt(a), Sqrt(Scale - a))
    IN  (earthRadius \div Scale) * c + Trunc((earthRadius % Scale) * c, Scale)

\* The haversine formula on finite coordinates; the result is in meters.
Haversine(lat1, long1, lat2, long2) ==
    LET phi1 == Radians(lat1)
        lambda1 == Radians(long1)
        phi2 == Radians(lat2)
        lambda2 == Radians(long2)
        deltaPhi == phi2 - phi1
        deltaLambda == lambda2 - lambda1
        sinPhi == Sin(Trunc(deltaPhi, 2))
        sinLambda == Sin(Trunc(deltaLambda, 2))
        a == Mul(sinPhi, sinPhi)
               + Mul(Mul(Cos(phi1), Cos(phi2)), Mul(sinLambda, sinLambda))
        c == 2 * Atan2(Sqrt(a), Sqrt(Scale - a))
    IN  (earthRadius \div Scale) * c + Trunc((earthRadius % Scale) * c, Scale)

\* getDistance: the great-circle distance in meters between two points.
\* A coordinate that is NaN or infinite makes every term NaN.
getDistance(lat1, long1, lat2, long2) ==
    IF IsFinite(lat1) /\ IsFinite(long1) /\ IsFinite(lat2) /\ IsFinite(long2)
    THEN Fin(Haversine(lat1.v, long1.v, lat2.v, long2.v))
    ELSE NaN

\* A speed is a float64 too, kept as the quotient it was computed from:
\* [k |-> "fin", m, d] is m meters / d (a Duration, not zero); the other
\* kinds are the results of dividing by zero or of a NaN.
Quot(m, d) == [k |-> "fin", m |-> m, d |-> d]

\* The literal -1.0.
MinusOne == Quot(-1, OneSecond)

\* distance / duration, as float64 division gives it.
Div(distance, duration) ==
    IF distance.k = "nan" THEN [k |-> "nan", m |-> 0, d |-> OneSecond]
    ELSE IF duration = ZeroDuration
         THEN (IF distance.v = 0 THEN [k |-> "nan", m |-> 0, d |-> OneSecond]
               ELSE IF distance.v > 0 THEN [k |-> "pinf", m |-> 0, d |-> OneSecond]
               ELSE [k |-> "ninf", m |-> 0, d |-> OneSecond])
         ELSE Quot(distance.v, duration)

-----------------------------------------------------------------------------
(* The maps.  A Go map is a function whose domain is the set of its keys;  *)
(* a key (a VIN) is a field of a split text.                               *)

EmptyMap == [v \in {} |-> <<>>]

MapPutAlone(m, key, value) == [v \in {key} |-> value]

MapPut(m, key, value) ==
    [v \in (DOMAIN m) \cup {key} |-> IF v = key THEN value ELSE m[v]]

\* A location built with its coordinates exchanged.
locationSwapped(timestamp, latitude, longitude) ==
    [timestamp |-> timestamp, latitude |-> longitude, longitude |-> latitude]

\* type location
location(timestamp, latitude, longitude) ==
    [timestamp |-> timestamp, latitude |-> latitude, longitude |-> longitude]

-----------------------------------------------------------------------------
(* sendSubscriberUpdate.                                                   *)

\* What net.DialUDP and conn.Write do for one subscriber: "sent", or the
\* error of the one or of the other.
Outcomes == {"sent", "dial_error", "write_error"}

\* Speed with the cutoff off by one comparison: a gap of exactly 2.0
\* seconds still gives a calculated speed.
SpeedInclusive(locations) ==
    LET length == Len(locations) IN
    IF length > 1
    THEN LET loc1 == locations[length - 1]
             loc2 == locations[length]
             duration == Sub(loc2.timestamp, loc1.timestamp)
         IN  IF ~DurLess(NormDur(0, 2000), duration)
             THEN Div(getDistance(loc1.latitude, loc1.longitude,
                                  loc2.latitude, loc2.longitude), duration)
             ELSE MinusOne
    ELSE MinusOne

\* The vehicle's speed in meters per second; -1.0 when there is not enough
\* information to calculate it.
Speed(locations) ==
    LET length == Len(locations) IN
    IF length > 1
    THEN LET loc1 == locations[length - 1]
             loc2 == locations[length]
             duration == Sub(loc2.timestamp, loc1.timestamp)
         IN  IF DurLess(duration, NormDur(0, 2000))
             THEN Div(getDistance(loc1.latitude, loc1.longitude,
                                  loc2.latitude, loc2.longitude), duration)
             ELSE MinusOne
    ELSE MinusOne

\* The update packet built from the first location of the history instead
\* of the last.
UpdateMessageStale(locations, vin) ==
    LET lastLocation == locations[1] IN
    [timestamp |-> FormatTime(lastLocation.timestamp),
     vin       |-> vin,
     latitude  |-> lastLocation.latitude,
     longitude |-> lastLocation.longitude,
     speed     |-> Speed(locations)]

\* fmt.Sprintf("%s %s %.6f %.6f %.6f", ...): the update packet, as its five
\* fields; the numbers are the values handed to %.6f.
UpdateMessage(locations, vin) ==
    LET lastLocation == locations[Len(locations)] IN
    [timestamp |-> FormatTime(lastLocation.timestamp),
     vin       |-> vin,
     latitude  |-> lastLocation.latitude,
     longitude |-> lastLocation.longitude,
     speed     |-> Speed(locations)]

\* %.6f of a coordinate: the decimal text with six digits after the point,
\* on the values the number texts of the model parse to.  A seventh digit
\* below 5 is rounded away.
FormatFloat(x) ==
    CASE x.k = "nan"     -> "NaN"
      [] x.k = "pinf"    -> "+Inf"
      [] x.k = "ninf"    -> "-Inf"
      [] x.v = 0         -> "0.000000"
      [] x.v = 20000000  -> "20.000000"
      [] x.v = 40000000  -> "40.000000"
      [] x.v = 53344496  -> "53.344496"
      [] x.v = -6259427  -> "-6.259427"
      [] x.v = -1000000  -> "-1.000000"

\* The quotient m meters / d is within half a millionth of -1, so that
\* %.6f renders it as -1.000000: -d is m seconds to that precision.  (A
\* distance is below 2.1e7 m, so a gap beyond 5e5 hours is far from it.)
RoundsToMinusOne(speed) ==
    /\ speed.k = "fin"
    /\ LET gap == NormDur(-speed.d.h, -speed.d.ms) IN
        /\ gap.h \in -500000..500000
        /\ LET secs == gap.h * 3600 + gap.ms \div 1000
               off == speed.m - secs
           IN  /\ off \in -1000..1000
               /\ LET diff == off * 1000 - (gap.ms % 1000) IN
                      \/ diff = 0
                      \/ 2000 * diff \in (1 - secs)..(secs - 1)

\* %.6f of the speed, on the speeds the model's reports give: the sentinel
\* and what rounds to it, a zero of either sign, NaN and the infinities.
FormatSpeed(speed) ==
    CASE speed.k = "nan"   -> "NaN"
      [] speed.k = "pinf"  -> "+Inf"
      [] speed.k = "ninf"  -> "-Inf"
      [] RoundsToMinusOne(speed) -> "-1.000000"
      [] speed.k = "fin" /\ speed.m = 0 /\ DurLess(speed.d, ZeroDuration)
                           -> "-0.000000"
      [] speed.k = "fin" /\ speed.m = 0 /\ DurLess(ZeroDuration, speed.d)
                           -> "0.000000"

\* fmt.Sprintf("%s %s %.6f %.6f %.6f", ...): the text of the update packet,
\* from its five fields.
Sprintf(msg) ==
    <<msg.timestamp, SP>> \o msg.vin
        \o <<SP, FormatFloat(msg.latitude), SP, FormatFloat(msg.longitude),
             SP, FormatSpeed(msg.speed)>>

\* A loop that returns after its first send.
SendOnce(addrs, i, message, outcome) ==
    IF i > Len(addrs) THEN [net |-> <<>>, stderr |-> <<>>]
    ELSE [net    |-> <<[to |-> addrs[i], msg |-> message, result |-> "sent"]>>,
          stderr |-> <<>>]

\* The loop over the subscribers, from the i-th on: its send attempts and
\* its diagnostics.  outcome[i] is what the network does for the i-th.
RECURSIVE SendLoop(_, _, _, _)
SendLoop(addrs, i, message, outcome) ==
    IF i > Len(addrs) THEN [net |-> <<>>, stderr |-> <<>>]
    ELSE IF outcome[i] = "dial_error"
         THEN \* net.DialUDP failed: log and return.
              [net    |-> <<[to |-> addrs[i], msg |-> message,
                             result |-> "dial_error"]>>,
               stderr |-> <<"unable to connect to subscriber address">>]
         ELSE LET rest == SendLoop(addrs, i + 1, message, outcome) IN
              IF outcome[i] = "write_error"
              THEN \* conn.Write failed: log and go on.
                   [net    |-> <<[to |-> addrs[i], msg |-> message,
                                  result |-> "write_error"]>> \o rest.net,
                    stderr |-> <<"failed to send subscriber update">>
                                 \o rest.stderr]
              ELSE [net    |-> <<[to |-> addrs[i], msg |-> message,
                                  result |-> "sent"]>> \o rest.net,
                    stderr |-> rest.stderr]

\* Every update sent to one fixed address, whoever subscribed.
sendSubscriberUpdateFixed(addrs, locations, vin, outcome) ==
    SendLoop([i \in 1..Len(addrs) |-> "E1"], 1,
             UpdateMessage(locations, vin), outcome)

sendSubscriberUpdate(addrs, locations, vin, outcome) ==
    SendLoop(addrs, 1, UpdateMessage(locations, vin), outcome)

-----------------------------------------------------------------------------
(* handleSubscriberPacket, handleVehiclePacket, handlePacket.  Each gives  *)
(* the maps after the call, the send attempts and the diagnostics.         *)

Dropped(fl, subs, diagnostic) ==
    [fleet |-> fl, subscribers |-> subs, net |-> <<>>, stderr |-> <<diagnostic>>]

\* A first SUBSCRIBE that creates the list and leaves it empty.
SubscribeLate(subs, vin, source) ==
    IF vin \in DOMAIN subs THEN Append(subs[vin], source) ELSE <<>>

\* The new subscriber put at the front of the list.
SubscribeFront(subs, vin, source) ==
    IF vin \in DOMAIN subs THEN <<source>> \o subs[vin] ELSE <<source>>

\* The subscriber list of a VIN after one more SUBSCRIBE from source.
Subscribe(subs, vin, source) ==
    IF vin \in DOMAIN subs THEN Append(subs[vin], source) ELSE <<source>>

handleSubscriberPacket(source, message, fl, subs) ==
    LET elements == Split(message) IN
    IF Len(elements) # 2
    THEN Dropped(fl, subs, "invalid subscriber packet")
    ELSE LET vin == elements[2] IN
         [fleet       |-> fl,
          subscribers |-> MapPut(subs, vin, Subscribe(subs, vin, source)),
          net         |-> <<>>,
          stderr      |-> <<>>]

\* A first location that creates the history and leaves it empty.
RecordLate(fl, vin, entry) ==
    IF vin \in DOMAIN fl THEN Append(fl[vin], entry) ELSE <<>>

\* The new location put at the front of the history.
RecordFirst(fl, vin, entry) ==
    IF vin \in DOMAIN fl THEN <<entry>> \o fl[vin] ELSE <<entry>>

\* The history of a VIN after one more location.
Record(fl, vin, entry) ==
    IF vin \in DOMAIN fl THEN Append(fl[vin], entry) ELSE <<entry>>

\* The subscribers of the VIN dropped from the registry once the update has
\* been sent to them.
StoreAndForget(vin, entry, fl, subs, outcome) ==
    LET fleet2 == MapPut(fl, vin, Record(fl, vin, entry)) IN
    IF vin \in DOMAIN subs
    THEN LET sent == sendSubscriberUpdate(subs[vin], fleet2[vin], vin, outcome) IN
         [fleet |-> fleet2,
          subscribers |-> [v \in (DOMAIN subs) \ {vin} |-> subs[v]],
          net |-> sent.net, stderr |-> sent.stderr]
    ELSE [fleet |-> fleet2, subscribers |-> subs, net |-> <<>>, stderr |-> <<>>]

\* The location stored and no update sent, subscribers or not.
StoreQuiet(vin, entry, fl, subs, outcome) ==
    [fleet       |-> MapPut(fl, vin, Record(fl, vin, entry)),
     subscribers |-> subs,
     net         |-> <<>>,
     stderr      |-> <<>>]

\* The end of handleVehiclePacket, for a packet that parsed: store the
\* location, then send the update if the VIN has subscribers.
Store(vin, entry, fl, subs, outcome) ==
    LET fleet2 == MapPut(fl, vin, Record(fl, vin, entry)) IN
    IF vin \in DOMAIN subs
    THEN LET sent == sendSubscriberUpdate(subs[vin], fleet2[vin], vin, outcome) IN
         [fleet |-> fleet2, subscribers |-> subs,
          net |-> sent.net, stderr |-> sent.stderr]
    ELSE [fleet |-> fleet2, subscribers |-> subs, net |-> <<>>, stderr |-> <<>>]

handleVehiclePacket(message, fl, subs, outcome) ==
    LET elements == Split(message) IN
    IF Len(elements) # 4 THEN Dropped(fl, subs, "invalid vehicle packet")
    ELSE
    LET timestamp == ParseTime(elements[1]) IN
    IF timestamp.err THEN Dropped(fl, subs, "invalid timestamp")
    ELSE
    LET vin == elements[2]
        latitude == ParseFloat(elements[3])
    IN
    IF latitude.err THEN Dropped(fl, subs, "invalid latitude")
    ELSE
    LET longitude == ParseFloat(elements[4]) IN
    IF longitude.err THEN Dropped(fl, subs, "invalid longitude")
    ELSE Store(vin, location(timestamp.val, latitude.val, longitude.val),
               fl, subs, outcome)

handlePacket(source, message, fl, subs, outcome) ==
    IF HasPrefixSUBSCRIBE(message)
    THEN handleSubscriberPacket(source, message, fl, subs)
    ELSE handleVehiclePacket(message, fl, subs, outcome)

-----------------------------------------------------------------------------
(* The subscriber client (client/main.go): handlePacket, on the text of    *)
(* one update packet.  It gives what the client writes: one line on stdout *)
(* or one diagnostic on stderr.                                            *)

\* Time.Format(time.RFC3339): the text of an instant to the second.
FormatRFC3339(t) == FormatTime([h |-> t.h, ms |-> t.ms - (t.ms % 1000)])

ClientDropped(diagnostic) == [stdout |-> <<>>, stderr |-> <<diagnostic>>]

clientHandlePacket(message) ==
    LET elements == Split(message) IN
    IF Len(elements) # 5 THEN ClientDropped("invalid update packet")
    ELSE
    LET timestamp == ParseTime(elements[1]) IN
    IF timestamp.err THEN ClientDropped("invalid timestamp")
    ELSE
    LET latitude == ParseFloat(elements[3]) IN
    IF latitude.err THEN ClientDropped("invalid latitude")
    ELSE
    LET longitude == ParseFloat(elements[4]) IN
    IF longitude.err THEN ClientDropped("invalid longitude")
    ELSE
    LET speed == ParseFloat(elements[5]) IN
    IF speed.err THEN ClientDropped("invalid speed")
    ELSE [stdout |-> <<[timeString |-> FormatRFC3339(timestamp.val),
                        latitude   |-> FormatFloat(latitude.val),
                        longitude  |-> FormatFloat(longitude.val),
                        speed      |-> IF speed.val = Fin(-1000000)
                                       THEN "N/A" ELSE "m/s"]>>,
          stderr |-> <<>>]

-----------------------------------------------------------------------------
(* The datagrams that arrive.                                              *)

T0 == "2024-01-01T00:00:00.000000000Z"
T1 == "2024-01-01T00:00:01Z"
T2 == "2024-01-01T00:00:02Z"
TFar == "2400-01-01T00:00:00Z"

\* A position report, as the vehicle simulator formats it.
Report(ts, vin, lat, lon) == <<ts, SP, vin, SP, lat, SP, lon>>

Datagram(source, message) == [err |-> FALSE, source |-> source, message |-> message]

\* The subscribers' addresses, and the address the vehicles send from.
Endpoints == {"E1", "E2"}
VehicleAddr == "VEH"

\* The two places the vehicles report.
Origin == <<"0.000000", "0.000000">>
Away == <<"20.000000", "40.000000">>

GoodReports ==
    {Report(x[1], "V1", x[2][1], x[2][2]) :
        x \in {<<T0, Origin>>, <<T1, Origin>>, <<T1, Away>>, <<T2, Away>>,
               <<TFar, Origin>>}}
    \cup {Report(T0, "V2", "0.000000", "0.000000")}

OddReports ==
    { <<T0, SP, "V1", SP, "0.000000">>,
      Report("yesterday", "V1", "0.000000", "0.000000"),
      Report(T1, "V1", "north", "0.000000"),
      Report(T1, "V1", "0.000000", "east"),
      <<T1, SP, SP, "0.000000", SP, "0.000000">> }

GoodSubscriptions ==
    { Datagram("E1", <<"SUBSCRIBE", SP, "V1">>),
      Datagram("E2", <<"SUBSCRIBE", SP, "V1">>),
      Datagram("E1", <<"SUBSCRIBE", SP, "V2">>) }

OddSubscriptions ==
    { Datagram("E1", <<"SUBSCRIBE">>),
      Datagram("E1", <<"SUBSCRIBE", SP>>),
      Datagram("E1", <<"SUBSCRIBE", SP, "V1", SP, "V2">>),
      Datagram("E1", <<"SUBSCRIBE", "X", SP, "V1">>) }

Datagrams ==
    {Datagram(VehicleAddr, m) : m \in GoodReports \cup OddReports}
    \cup GoodSubscriptions \cup OddSubscriptions

\* The reports whose text matters: the place the vehicle simulator starts
\* from, with and without a seventh decimal; a report stamped earlier than
\* T0 by as many seconds as the origin is meters from that place, and one
\* from that place with the same stamp; numbers that are no decimals.
TBack == "2023-10-24T01:39:41Z"
Dublin == <<"53.344496", "-6.259427">>

WireReports ==
    { Report(T0, "V1", Dublin[1], Dublin[2]),
      Report(T1, "V1", Dublin[1], Dublin[2]),
      Report(T1, "V1", "53.3444964", Dublin[2]),
      Report(TBack, "V1", Origin[1], Origin[2]),
      Report(TBack, "V1", Dublin[1], Dublin[2]),
      Report(T1, "V1", "NaN", "0.000000"),
      Report(T1, "V1", "0.000000", "Inf"),
      Report(T1, "V1", "+Inf", "0.000000"),
      Report(T1, "V1", "north", "0.000000") }

WireDatagrams ==
    {Datagram(VehicleAddr, m) : m \in WireReports}
    \cup {Datagram(e, <<"SUBSCRIBE", SP, "V1">>) : e \in Endpoints}

\* The points getDistance is measured between, in millionths of a degree.
Latitudes == {-40000000, -20000000, 0, 20000000, 40000000, 53344496}
Longitudes == {-40000000, -6259427, 0, 40000000}

-----------------------------------------------------------------------------
(* runServer: the server loop.                                             *)

\* How many sends the packet can cause: the number of subscribers of the
\* VIN in its second field, if it has four fields.
Width(message) ==
    LET elements == Split(message) IN
    IF Len(elements) = 4 /\ elements[2] \in DOMAIN subscribers
    THEN Len(subscribers[elements[2]])
    ELSE 0

\* The send attempts of one iteration, each with the iteration that made it.
Caused(net, n) ==
    [i \in 1..Len(net) |->
        [cause |-> n, to |-> net[i].to, msg |-> net[i].msg, result |-> net[i].result]]

Init ==
    /\ fleet = EmptyMap
    /\ subscribers = EmptyMap
    /\ outlog = <<>>
    /\ stderr = <<>>
    /\ received = <<>>
    /\ measured = <<>>

\* One iteration in which ReadFromUDP returns a datagram: handlePacket runs
\* to its end, sends included.
Receive(p, outcome) ==
    /\ Len(received) < MaxPackets
    /\ \E r \in {handlePacket(p.source, p.message, fleet, subscribers, outcome)} :
        /\ fleet' = r.fleet
        /\ subscribers' = r.subscribers
        /\ outlog' = outlog \o Caused(r.net, Len(received) + 1)
        /\ stderr' = stderr \o r.stderr
    /\ received' = Append(received, p)
    /\ UNCHANGED measured

\* A failed read that takes the two maps with it.
ReadErrorReset ==
    /\ Len(received) < MaxPackets
    /\ stderr' = Append(stderr, "invalid read")
    /\ received' = Append(received, [err |-> TRUE, source |-> "", message |-> <<>>])
    /\ fleet' = EmptyMap
    /\ subscribers' = EmptyMap
    /\ UNCHANGED <<outlog, measured>>

\* One iteration in which ReadFromUDP returns an error.
ReadError ==
    /\ Len(received) < MaxPackets
    /\ stderr' = Append(stderr, "invalid read")
    /\ received' = Append(received, [err |-> TRUE, source |-> "", message |-> <<>>])
    /\ UNCHANGED <<fleet, subscribers, outlog, measured>>

Next ==
    \/ \E p \in Datagrams : \E outcome \in [1..Width(p.message) -> Outcomes] :
            Receive(p, outcome)
    \/ ReadError

Spec == Init /\ [][Next]_vars

\* The server loop fed with the reports whose text matters.
WireNext ==
    \E p \in WireDatagrams : \E outcome \in [1..Width(p.message) -> Outcomes] :
        Receive(p, outcome)

WireSpec == Init /\ [][WireNext]_vars

\* One call of getDistance on its own.
Measure(lat1, long1, lat2, long2) ==
    /\ measured = <<>>
    /\ measured' = <<[lat1 |-> lat1, long1 |-> long1,
                      lat2 |-> lat2, long2 |-> long2,
                      distance |-> getDistance(Fin(lat1), Fin(long1),
                                               Fin(lat2), Fin(long2))]>>
    /\ UNCHANGED <<fleet, subscribers, outlog, stderr, received>>

DistNext ==
    \E lat1, lat2 \in Latitudes : \E long1, long2 \in Longitudes :
        Measure(lat1, long1, lat2, long2)

DistSpec == Init /\ [][DistNext]_vars

-----------------------------------------------------------------------------
(* Vocabulary of the properties.  A step of the loop is read from the      *)
(* state before it (unprimed) and the state after it (primed).             *)

IsPrefix(s, t) == Len(s) <= Len(t) /\ SubSeq(t, 1, Len(s)) = s

\* The history and the subscriber sequence of an agent, empty when the map
\* has no entry for it.
History(A) == IF A \in DOMAIN fleet THEN fleet[A] ELSE <<>>
SubscriberSeq(A) == IF A \in DOMAIN subscribers THEN subscribers[A] ELSE <<>>

\* The datagram this step handled, and the send attempts this step made.
Handled == received'[Len(received')]
NewAttempts == SubSeq(outlog', Len(outlog) + 1, Len(outlog'))

\* This step accepted a position report for agent A: A's history grew.
Accepted(A) == A \in DOMAIN fleet' /\ fleet'[A] # History(A)

\* This step changed nothing but the two logs of what arrived and what was
\* diagnosed.
NothingDone == UNCHANGED <<fleet, subscribers, outlog>>

TwoSeconds == NormDur(0, 2000)

\* The gap between the last two samples of a history of two or more.
LastGap(h) == TrueGap(h[Len(h)].timestamp, h[Len(h) - 1].timestamp)

\* The iterations in which a datagram was handled whose text passes every
\* check of the position handler, and the sample such a text carries.
IsReport(d) ==
    /\ ~d.err
    /\ ~HasPrefixSUBSCRIBE(d.message)
    /\ LET e == Split(d.message) IN
        /\ Len(e) = 4
        /\ ~ParseTime(e[1]).err
        /\ ~ParseFloat(e[3]).err
        /\ ~ParseFloat(e[4]).err

AgentOf(d) == Split(d.message)[2]

SampleOf(d) ==
    LET e == Split(d.message) IN
    [timestamp |-> ParseTime(e[1]).val,
     latitude  |-> ParseFloat(e[3]).val,
     longitude |-> ParseFloat(e[4]).val]

RECURSIVE SamplesFor(_, _)
SamplesFor(A, n) ==
    IF n = 0 THEN <<>>
    ELSE IF IsReport(received[n]) /\ AgentOf(received[n]) = A
         THEN Append(SamplesFor(A, n - 1), SampleOf(received[n]))
         ELSE SamplesFor(A, n - 1)

TAB == "\t"

\* The white space of the specification's "whitespace-separated tokens".
Blank == {SP, TAB}

RECURSIVE TokensFrom(_, _, _, _)
TokensFrom(message, i, cur, acc) ==
    IF i > Len(message)
    THEN (IF cur = <<>> THEN acc ELSE Append(acc, cur))
    ELSE IF message[i] \in Blank
         THEN TokensFrom(message, i + 1, <<>>,
                         IF cur = <<>> THEN acc ELSE Append(acc, cur))
         ELSE TokensFrom(message, i + 1, Append(cur, message[i]), acc)

\* The whitespace-separated tokens of a text: maximal runs of non-blank
\* characters.  The server never computes this; it is the reading of
\* "token" that the properties about whitespace-separated tokens use.
Tokens(message) == TokensFrom(message, 1, <<>>, <<>>)

\* The leading whitespace-separated token of a text, <<>> if it has none.
LeadingToken(message) ==
    IF Tokens(message) = <<>> THEN <<>> ELSE Tokens(message)[1]

\* speed == -1.0: m meters / d equals -1 exactly, that is -d is m seconds.
IsMinusOne(speed) ==
    /\ speed.k = "fin"
    /\ NormDur(-speed.d.h, -speed.d.ms)
         = [h |-> speed.m \div 3600, ms |-> (speed.m % 3600) * 1000]

\* Equality of two speeds as numbers, for quotients with one numerator.
SameSpeed(s, t) ==
    /\ s.k = t.k
    /\ s.k = "fin" => ((s.m = 0 /\ t.m = 0) \/ (s.m = t.m /\ s.d = t.d))

-----------------------------------------------------------------------------
(* C1.  While the update for one accepted position report is sent, a       *)
(* failure for one subscriber (opening the socket or writing) does not     *)
(* stop the sends to the later ones: every entry of the agent's subscriber *)
(* sequence gets its own send attempt, in order.                           *)
C1_EverySubscriberAttempted ==
    [][\A A \in DOMAIN fleet' :
          Accepted(A) =>
            /\ Len(NewAttempts) = Len(SubscriberSeq(A))
            /\ \A i \in 1..Len(NewAttempts) :
                  NewAttempts[i].to = SubscriberSeq(A)[i]]_vars

(* C2.  An accepted position report for an agent with a non-empty          *)
(* subscriber sequence, with no send failure, puts exactly one datagram on *)
(* the wire per entry of the sequence, duplicates included, each addressed *)
(* to its entry's endpoint, and nothing else.                              *)
C2_OneDatagramPerEntry ==
    [][\A A \in DOMAIN fleet' :
          (/\ Accepted(A)
           /\ SubscriberSeq(A) # <<>>
           /\ \A i \in 1..Len(NewAttempts) : NewAttempts[i].result = "sent")
          =>
            /\ outlog' = outlog \o NewAttempts
            /\ Len(NewAttempts) = Len(SubscriberSeq(A))
            /\ \A i \in 1..Len(NewAttempts) :
                  /\ NewAttempts[i].to = SubscriberSeq(A)[i]
                  /\ NewAttempts[i].msg.vin = A]_vars

\* An agent with two subscriber entries for one endpoint, and a report for
\* it that put two datagrams on the wire, both to that endpoint.
C2_Witness ==
    \E A \in DOMAIN subscribers :
        /\ Len(subscribers[A]) = 2
        /\ subscribers[A][1] = subscribers[A][2]
        /\ Len(outlog) = 2
        /\ \A i \in 1..2 :
              /\ outlog[i].result = "sent"
              /\ outlog[i].to = subscribers[A][i]
              /\ outlog[i].cause = Len(received)

(* C3.  The speed in an update is exactly -1.0 when the agent's history    *)
(* holds fewer than two samples, and when the last sample's timestamp is   *)
(* 2.0 seconds or more after the one before it.                            *)
C3_SentinelSpeed ==
    [][\A A \in DOMAIN fleet' :
          Accepted(A) =>
            LET h == fleet'[A] IN
            (Len(h) < 2 \/ ~DurLess(LastGap(h), TwoSeconds))
            => \A i \in 1..Len(NewAttempts) :
                  IsMinusOne(NewAttempts[i].msg.speed)]_vars

\* An update sent for a second sample exactly 2.0 seconds after the first,
\* at another place, carrying -1.0.
C3_Witness ==
    \E i \in 1..Len(outlog) :
        LET A == outlog[i].msg.vin IN
        /\ outlog[i].cause = Len(received)
        /\ outlog[i].result = "sent"
        /\ IsMinusOne(outlog[i].msg.speed)
        /\ Len(History(A)) = 2
        /\ LastGap(History(A)) = TwoSeconds
        /\ History(A)[1].latitude # History(A)[2].latitude

(* C4.  With two or more samples in the history and the last timestamp     *)
(* less than 2.0 seconds after the one before it, the speed in the update  *)
(* is distance(second-to-last, last) divided by that gap in seconds.       *)
C4_SpeedIsDistanceOverGap ==
    [][\A A \in DOMAIN fleet' :
          Accepted(A) =>
            LET h == fleet'[A] IN
            (Len(h) >= 2 /\ DurLess(LastGap(h), TwoSeconds))
            => \A i \in 1..Len(NewAttempts) :
                  SameSpeed(NewAttempts[i].msg.speed,
                            Div(getDistance(h[Len(h) - 1].latitude,
                                            h[Len(h) - 1].longitude,
                                            h[Len(h)].latitude,
                                            h[Len(h)].longitude),
                                LastGap(h)))]_vars

(* C5.  A datagram classified as a subscription whose number of            *)
(* whitespace-separated tokens is not two changes neither map and causes   *)
(* no send.                                                                *)
C5_MalformedSubscriptionIgnored ==
    [][(/\ ~Handled.err
        /\ HasPrefixSUBSCRIBE(Handled.message)
        /\ Len(Tokens(Handled.message)) # 2)
       => NothingDone]_vars

(* C6.  A candidate position report that does not have four               *)
(* whitespace-separated tokens, or whose timestamp, latitude or longitude  *)
(* token does not parse, is dropped: neither map changes and nothing is    *)
(* sent.                                                                   *)
C6_MalformedReportDropped ==
    [][(/\ ~Handled.err
        /\ ~HasPrefixSUBSCRIBE(Handled.message)
        /\ LET t == Tokens(Handled.message) IN
              \/ Len(t) # 4
              \/ ParseTime(t[1]).err
              \/ ParseFloat(t[3]).err
              \/ ParseFloat(t[4]).err)
       => NothingDone]_vars

(* C7.  Only a datagram whose leading whitespace-separated token is        *)
(* SUBSCRIBE reaches the subscription handler: a step that changes the     *)
(* subscriber registry handled such a datagram.                            *)
C7_OnlySubscribeTokenRegisters ==
    [][subscribers' # subscribers
       => LeadingToken(Handled.message) = <<"SUBSCRIBE">>]_vars

(* C8.  Every agent's history only grows at its end: after any step, the   *)
(* history before the step is a prefix of the history after it.            *)
C8_HistoryAppendOnly ==
    [][\A A \in DOMAIN fleet :
          /\ A \in DOMAIN fleet'
          /\ IsPrefix(fleet[A], fleet'[A])]_vars

\* A history of two samples kept in arrival order, the later arrival having
\* the earlier timestamp.
C8_Witness ==
    \E A \in DOMAIN fleet :
        /\ Len(fleet[A]) = 2
        /\ DurLess(fleet[A][2].timestamp, fleet[A][1].timestamp)

C10_UpdatesInAcceptanceOrder ==
    /\ \A i \in 1..Len(outlog) :
          LET r == received[outlog[i].cause] IN
          /\ IsReport(r)
          /\ outlog[i].msg.vin = AgentOf(r)
          /\ outlog[i].msg.timestamp = FormatTime(SampleOf(r).timestamp)
          /\ outlog[i].msg.latitude = SampleOf(r).latitude
          /\ outlog[i].msg.longitude = SampleOf(r).longitude
    /\ \A i, j \in 1..Len(outlog) :
          (/\ i < j
           /\ outlog[i].msg.vin = outlog[j].msg.vin
           /\ outlog[i].to = outlog[j].to)
          => outlog[i].cause <= outlog[j].cause

\* Two datagrams sent to one endpoint for one agent, caused by two reports
\* with different timestamps.
C10_Witness ==
    \E i, j \in 1..Len(outlog) :
        /\ outlog[i].cause < outlog[j].cause
        /\ outlog[i].to = outlog[j].to
        /\ outlog[i].msg.vin = outlog[j].msg.vin
        /\ outlog[i].result = "sent"
        /\ outlog[j].result = "sent"
        /\ outlog[i].msg.timestamp # outlog[j].msg.timestamp

-----------------------------------------------------------------------------
(* More vocabulary.                                                        *)

\* A datagram that passes every check of the subscription handler; its
\* agent is its second field, as AgentOf gives it.
IsSubscription(d) ==
    /\ ~d.err
    /\ HasPrefixSUBSCRIBE(d.message)
    /\ Len(Split(d.message)) = 2

\* How many entries of a sequence are x.
Count(seq, x) == Cardinality({i \in 1..Len(seq) : seq[i] = x})

\* How many of this step's send attempts go to endpoint e.
AttemptsTo(e) == Cardinality({i \in 1..Len(NewAttempts) : NewAttempts[i].to = e})

(* C11.  An accepted position report makes send attempts if and only if    *)
(* the agent's subscriber sequence is non-empty; for an agent with no      *)
(* registry entry it appends the sample to the history, sends nothing and  *)
(* writes no diagnostic.                                                   *)
C11_DispatchIffSubscribed ==
    [][\A A \in DOMAIN fleet' :
          Accepted(A) =>
            /\ (NewAttempts # <<>>) <=> (SubscriberSeq(A) # <<>>)
            /\ A \notin DOMAIN subscribers =>
                  /\ fleet'[A] = Append(History(A), SampleOf(Handled))
                  /\ outlog' = outlog
                  /\ stderr' = stderr]_vars

\* A report just accepted for an agent nobody subscribed to, while another
\* agent has a subscriber: the history has the sample, nothing was sent and
\* nothing was diagnosed.
C11_Witness ==
    /\ Len(received) >= 2
    /\ IsReport(received[Len(received)])
    /\ LET A == AgentOf(received[Len(received)]) IN
          /\ A \notin DOMAIN subscribers
          /\ History(A) = <<SampleOf(received[Len(received)])>>
    /\ DOMAIN subscribers # {}
    /\ outlog = <<>>
    /\ stderr = <<>>

(* C12.  Subscriptions are not de-duplicated: an agent's subscriber        *)
(* sequence holds one entry for an endpoint per accepted subscription that *)
(* endpoint sent for the agent, and every accepted position report for the *)
(* agent makes as many sends to the endpoint as the sequence has entries   *)
(* for it.                                                                 *)
C12_DuplicatesKeptAndServed ==
    [][\A A \in DOMAIN subscribers' : \A e \in Endpoints :
          /\ Count(subscribers'[A], e)
               = Cardinality({n \in 1..Len(received') :
                                /\ IsSubscription(received'[n])
                                /\ AgentOf(received'[n]) = A
                                /\ received'[n].source = e})
          /\ Accepted(A) => AttemptsTo(e) = Count(SubscriberSeq(A), e)]_vars

(* C14.  With two endpoints registered for one agent, every accepted       *)
(* position report for the agent makes a send to each of them, all with    *)
(* the same content, so that both are sent the same updates in the same    *)
(* order.                                                                  *)
C14_BothEndpointsSentTheSame ==
    [][\A A \in DOMAIN fleet' : \A e1, e2 \in Endpoints :
          (/\ Accepted(A)
           /\ e1 # e2
           /\ SubscriberSeq(A) = <<e1, e2>>)
          => /\ AttemptsTo(e1) = 1
             /\ AttemptsTo(e2) = 1
             /\ \A i, j \in 1..Len(NewAttempts) :
                   NewAttempts[i].msg = NewAttempts[j].msg]_vars

(* C15.  An accepted subscription from endpoint e for an agent appends e   *)
(* at the end of the agent's subscriber sequence, creating it if absent,   *)
(* and does nothing else: the other agents' sequences and the whole fleet  *)
(* are unchanged and nothing is sent.                                      *)
C15_SubscriptionOnlyAppends ==
    [][IsSubscription(Handled) =>
          LET A == AgentOf(Handled) IN
          /\ DOMAIN subscribers' = (DOMAIN subscribers) \cup {A}
          /\ subscribers'[A] = Append(SubscriberSeq(A), Handled.source)
          /\ \A B \in DOMAIN subscribers : B # A => subscribers'[B] = subscribers[B]
          /\ fleet' = fleet
          /\ outlog' = outlog]_vars

\* An agent with a history got its second subscriber, from another
\* endpoint than the first, after the first; nothing was ever sent.
C15_Witness ==
    /\ Len(received) = 3
    /\ IsSubscription(received[2])
    /\ IsSubscription(received[3])
    /\ received[2].source # received[3].source
    /\ LET A == AgentOf(received[3]) IN
          /\ History(A) # <<>>
          /\ SubscriberSeq(A) = <<received[2].source, received[3].source>>
    /\ outlog = <<>>

(* C16.  A failed read changes neither map and sends nothing, and the      *)
(* loop goes on: the datagram read after it is handled as handlePacket     *)
(* handles it on the maps as they were before the failure.                 *)
C16_ReadErrorSkipped ==
    [][/\ Handled.err => NothingDone
       /\ (/\ received # <<>>
           /\ received[Len(received)].err
           /\ ~Handled.err)
          => \E outcome \in [1..Width(Handled.message) -> Outcomes] :
                LET r == handlePacket(Handled.source, Handled.message,
                                      fleet, subscribers, outcome)
                IN  /\ fleet' = r.fleet
                    /\ subscribers' = r.subscribers
                    /\ Len(NewAttempts) = Len(r.net)
                    /\ \A i \in 1..Len(r.net) :
                          /\ NewAttempts[i].to = r.net[i].to
                          /\ NewAttempts[i].msg = r.net[i].msg
                          /\ NewAttempts[i].result = r.net[i].result]_vars

\* A subscription, then a failed read, then a report for the subscribed
\* agent that was stored and sent to the subscriber.
C16_Witness ==
    /\ Len(received) = 3
    /\ IsSubscription(received[1])
    /\ received[2].err
    /\ IsReport(received[3])
    /\ History(AgentOf(received[3])) = <<SampleOf(received[3])>>
    /\ SubscriberSeq(AgentOf(received[3])) = <<received[1].source>>
    /\ Len(outlog) = 1
    /\ outlog[1].result = "sent"
    /\ outlog[1].to = received[1].source

(* C17.  Keys are created only by an accepted message and never deleted:   *)
(* a step that adds a key to the fleet handled an accepted position report *)
(* for that agent, a step that adds a key to the subscriber registry       *)
(* handled an accepted subscription for it, and no step removes a key of   *)
(* either map.                                                             *)
C17_KeysOnlyAddedByAcceptance ==
    [][/\ DOMAIN fleet \subseteq DOMAIN fleet'
       /\ DOMAIN subscribers \subseteq DOMAIN subscribers'
       /\ \A A \in (DOMAIN fleet') \ (DOMAIN fleet) :
             IsReport(Handled) /\ AgentOf(Handled) = A
       /\ \A A \in (DOMAIN subscribers') \ (DOMAIN subscribers) :
             IsSubscription(Handled) /\ AgentOf(Handled) = A]_vars

\* Two agents in the fleet and one in the registry, each key made by its
\* own accepted message.
C17_Witness ==
    /\ Len(received) = 3
    /\ Cardinality(DOMAIN fleet) = 2
    /\ Cardinality(DOMAIN subscribers) = 1
    /\ \A A \in DOMAIN fleet :
          \E n \in 1..3 : IsReport(received[n]) /\ AgentOf(received[n]) = A
    /\ \A A \in DOMAIN subscribers :
          \E n \in 1..3 : IsSubscription(received[n]) /\ AgentOf(received[n]) = A

\* The timestamp texts with a nine-digit fraction of a second, and the
\* coordinate texts with six decimals.
NineDigitFraction == {T0}
SixDecimals == {"0.000000", "20.000000", "40.000000", "53.344496", "-6.259427"}

\* This step handled the first accepted report for V1, with six-decimal
\* coordinates, while V1's only subscriber entry was e.
FirstReportFor(e) ==
    /\ SubscriberSeq(<<"V1">>) = <<e>>
    /\ History(<<"V1">>) = <<>>
    /\ Accepted(<<"V1">>)
    /\ Split(Handled.message)[3][1] \in SixDecimals
    /\ Split(Handled.message)[4][1] \in SixDecimals

(* C13, as stated.  After one subscription for V1, the first accepted      *)
(* report for V1 whose timestamp has a nine-digit fraction and whose       *)
(* coordinates have six decimals makes exactly one send, to the            *)
(* subscriber, and its text is the text of the report followed by          *)
(* " -1.000000".                                                           *)
C13_FirstUpdateEchoesReport ==
    [][\A e \in Endpoints :
          (/\ FirstReportFor(e)
           /\ Split(Handled.message)[1][1] \in NineDigitFraction)
          => /\ Len(NewAttempts) = 1
             /\ NewAttempts[1].to = e
             /\ Sprintf(NewAttempts[1].msg)
                  = Handled.message \o <<SP, "-1.000000">>]_vars

\* The timestamp text without the trailing zeros of its fraction.
Trimmed(ts) ==
    IF ts = "2024-01-01T00:00:00.000000000Z" THEN "2024-01-01T00:00:00Z" ELSE ts

(* C13, amended.  After one subscription for V1, the first accepted report *)
(* for V1 with six-decimal coordinates makes exactly one send, to the      *)
(* subscriber; its text is the report's timestamp without the trailing     *)
(* zeros of the fraction ("2024-01-01T00:00:00Z" for                       *)
(* "2024-01-01T00:00:00.000000000Z"), then the agent id, latitude and      *)
(* longitude as sent, then "-1.000000".                                    *)
C13_FirstUpdateRendersReport ==
    [][\A e \in Endpoints :
          FirstReportFor(e)
          => LET f == Split(Handled.message) IN
             /\ Len(NewAttempts) = 1
             /\ NewAttempts[1].to = e
             /\ Sprintf(NewAttempts[1].msg)
                  = <<Trimmed(f[1][1]), SP, "V1", SP, f[3][1], SP, f[4][1],
                      SP, "-1.000000">>]_vars

\* E1 subscribed to V1 and the report of the specification's scenario came:
\* one datagram went to E1, with the timestamp as 2024-01-01T00:00:00Z.
C13_Witness ==
    /\ Len(received) = 2
    /\ received[1] = Datagram("E1", <<"SUBSCRIBE", SP, "V1">>)
    /\ received[2] = Datagram(VehicleAddr,
                              Report("2024-01-01T00:00:00.000000000Z", "V1",
                                     "53.344496", "-6.259427"))
    /\ Len(outlog) = 1
    /\ outlog[1].to = "E1"
    /\ outlog[1].result = "sent"
    /\ Sprintf(outlog[1].msg)
         = <<"2024-01-01T00:00:00Z", SP, "V1", SP, "53.344496", SP,
             "-6.259427", SP, "-1.000000">>

(* C18.  Every update text the server formats is accepted by the client's  *)
(* handlePacket: it has five fields, its second field is the agent id, the *)
(* client shows the latitude and longitude the server rendered, and the    *)
(* client shows the speed as not available exactly when the server's speed *)
(* is the sentinel of the no-speed branch.                                 *)
C18_ClientReadsWhatServerWrote ==
    \A i \in 1..Len(outlog) :
        LET msg == outlog[i].msg
            text == Sprintf(msg)
            out == clientHandlePacket(text)
        IN  /\ Len(Split(text)) = 5
            /\ Split(text)[2] = msg.vin
            /\ out.stderr = <<>>
            /\ Len(out.stdout) = 1
            /\ out.stdout[1].latitude = FormatFloat(msg.latitude)
            /\ out.stdout[1].longitude = FormatFloat(msg.longitude)
            /\ (out.stdout[1].speed = "N/A") <=> (msg.speed = MinusOne)

(* C19.  getDistance is symmetric and zero on identical points: a measured *)
(* distance is the distance measured the other way round, and it is 0 when *)
(* the two points are the same.                                            *)
C19_DistanceSymmetricAndZero ==
    \A i \in 1..Len(measured) :
        LET call == measured[i] IN
        /\ call.distance = getDistance(Fin(call.lat2), Fin(call.long2),
                                       Fin(call.lat1), Fin(call.long1))
        /\ (call.lat1 = call.lat2 /\ call.long1 = call.long2)
           => call.distance = Fin(0)

\* A distance measured between two points on different latitudes and
\* different longitudes: it is more than 1000 km.
C19_Witness ==
    /\ Len(measured) = 1
    /\ measured[1].lat1 # measured[1].lat2
    /\ measured[1].long1 # measured[1].long2
    /\ measured[1].lat1 # 0
    /\ measured[1].distance.k = "fin"
    /\ measured[1].distance.v > 1000000

\* The number texts that are not finite decimal numbers.
NotFinite == {<<"NaN">>, <<"Inf">>, <<"+Inf">>, <<"-Inf">>}

(* C20.  A position report of four tokens whose latitude or longitude      *)
(* token is not a finite decimal number ("NaN", "Inf", "+Inf") is dropped: *)
(* neither map changes and nothing is sent.                                *)
C20_NonFiniteCoordinateDropped ==
    [][(/\ ~Handled.err
        /\ ~HasPrefixSUBSCRIBE(Handled.message)
        /\ LET t == Tokens(Handled.message) IN
              /\ Len(t) = 4
              /\ (t[3] \in NotFinite \/ t[4] \in NotFinite))
       => NothingDone]_vars

\* The elements of a sequence.
Range(seq) == {seq[i] : i \in 1..Len(seq)}

(* C21.  In every update the speed is the sentinel -1.0 or a finite number *)
(* that is not negative, whatever the order the reports arrive in: with    *)
(* equal timestamps and with a timestamp earlier than the one before.      *)
C21_SpeedSentinelOrNonNegative ==
    \A i \in 1..Len(outlog) :
        LET speed == outlog[i].msg.speed IN
        \/ speed = MinusOne
        \/ /\ speed.k = "fin"
           /\ speed.m >= 0
           /\ (speed.m = 0 \/ DurLess(ZeroDuration, speed.d))

(* C22.  Isolation between agents: every send made for an accepted         *)
(* position report for an agent goes to an endpoint of that agent's        *)
(* subscriber sequence as it is when the report is handled, and carries    *)
(* that agent's id; a step that accepts no report sends nothing.           *)
C22_UpdatesOnlyToOwnSubscribers ==
    [][/\ \A A \in DOMAIN fleet' :
             Accepted(A) =>
               \A i \in 1..Len(NewAttempts) :
                  /\ NewAttempts[i].to \in Range(SubscriberSeq(A))
                  /\ NewAttempts[i].msg.vin = A
       /\ (\A A \in DOMAIN fleet' : ~Accepted(A)) => NewAttempts = <<>>]_vars

\* Two agents with one subscriber each, at different endpoints, and a
\* report for one of them: its one update went to its own subscriber.
C22_Witness ==
    /\ Len(received) = 3
    /\ \E A, B \in DOMAIN subscribers :
          /\ A # B
          /\ Len(subscribers[A]) = 1
          /\ Len(subscribers[B]) = 1
          /\ subscribers[A][1] # subscribers[B][1]
          /\ Len(outlog) = 1
          /\ outlog[1].msg.vin = A
          /\ outlog[1].to = subscribers[A][1]
          /\ outlog[1].result = "sent"

(* C23.  Every entry of the subscriber registry is a non-empty sequence:   *)
(* an agent has a registry entry exactly when its subscriber sequence is   *)
(* non-empty.                                                              *)
C23_RegistryEntriesNonEmpty ==
    \A A \in DOMAIN subscribers : subscribers[A] # <<>>

\* A registry with entries for two agents.
C23_Witness ==
    /\ Cardinality(DOMAIN subscribers) = 2
    /\ \A A \in DOMAIN subscribers : Len(subscribers[A]) = 1

(* C24.  Every history of the fleet is non-empty, and every update was     *)
(* built from a history of at least one sample: the report that caused it  *)
(* had been appended before the update was made.                           *)
C24_HistoriesNonEmpty ==
    /\ \A A \in DOMAIN fleet : fleet[A] # <<>>
    /\ \A i \in 1..Len(outlog) :
          Len(SamplesFor(outlog[i].msg.vin, outlog[i].cause)) >= 1

\* An update sent for the very first report of an agent.
C24_Witness ==
    \E i \in 1..Len(outlog) :
        /\ Len(SamplesFor(outlog[i].msg.vin, outlog[i].cause)) = 1
        /\ Len(History(outlog[i].msg.vin)) = 1
        /\ outlog[i].cause = Len(received)

(* C25.  An accepted position report for an agent changes only that        *)
(* agent's history: the other histories and the whole subscriber registry  *)
(* are unchanged, with or without sends and whether or not a send fails.   *)
C25_ReportChangesOnlyOwnHistory ==
    [][\A A \in DOMAIN fleet' :
          Accepted(A) =>
            /\ DOMAIN fleet' = (DOMAIN fleet) \cup {A}
            /\ \A B \in DOMAIN fleet : B # A => fleet'[B] = fleet[B]
            /\ subscribers' = subscribers]_vars

\* Two agents in the fleet; the last report was for a subscribed agent and
\* its send failed; the registry still has the subscriber.
C25_Witness ==
    /\ Len(received) = 3
    /\ Cardinality(DOMAIN fleet) = 2
    /\ IsReport(received[3])
    /\ Len(SubscriberSeq(AgentOf(received[3]))) = 1
    /\ Len(outlog) = 1
    /\ outlog[1].cause = 3
    /\ outlog[1].result # "sent"

=============================================================================
